---- MODULE Spec2Model ----
(***************************************************************************)
(* Model of spotifygithub.py: the loop of main() that refreshes a Spotify  *)
(* access token, polls the currently playing track and mirrors it to the   *)
(* GitHub profile status, together with refresh_access_token,              *)
(* update_env_file, get_current_playing and set_github_status.             *)
(*                                                                         *)
(* The three HTTP services and the file system are the environment: every  *)
(* call draws its response from a small set.  Time is in seconds; the      *)
(* clock moves in the two sleeps and in the environment action Elapse.     *)
(***************************************************************************)
EXTENDS Integers, Sequences, FiniteSets, TLC

VARIABLES
    pc,                     \* position of main(): see Positions
    now,                    \* the wall clock (datetime.utcnow()), in seconds
    exit_code,              \* -1 while the process runs, else its exit code
    CLEAR_STATUS_WHEN_IDLE, \* configuration, line 21
    SPOTIFY_REFRESH_TOKEN,  \* module global, line 16
    env_file,               \* the .env file at ENV_PATH
    os_environ,             \* os.environ["SPOTIFY_REFRESH_TOKEN"]
    access_token,           \* locals of main(), lines 192-195
    expires_at_token,
    last_status,
    consecutive_failures,
    status_message,         \* locals of main(), lines 231-236
    status_expires,
    \* history variables: they record what happened and steer nothing
    last_event,             \* the most recent call or sleep of the loop
    acked,                  \* message of the last tick publish that returned True
    prev,                   \* the tick before: its candidate, whether its publish failed
    fails_in_row,           \* refresh failures since the last successful refresh
    storage,                \* the refresh token and its store: the last token the
                            \* endpoint issued, whether the store agreed with the
                            \* global at start, whether update_env_file has failed
    basis                   \* what the coming poll rests on (a refresh or the
                            \* expiry check) and the time of it

vars == <<pc, now, exit_code, CLEAR_STATUS_WHEN_IDLE, SPOTIFY_REFRESH_TOKEN,
          env_file, os_environ, access_token, expires_at_token, last_status,
          consecutive_failures, status_message, status_expires,
          last_event, acked, prev, fails_in_row, storage, basis>>

-----------------------------------------------------------------------------
(* Values *)

\* Python's None where a string is expected, and where a message is expected.
None == "None"
NoneMsg == <<>>

\* not x, for x a string or None
Falsy(x) == x = None \/ x = ""

POLL_INTERVAL == 15
max_failures == 5
SAFETY_MARGIN == 60
BACKOFF_CAP == 300
DEFAULT_EXPIRES_IN == 3600
STATUS_PREFIX == "PREFIX "
REFRESH_KEY == "SPOTIFY_REFRESH_TOKEN"

\* Bounds of the model: the horizon of the clock, in poll intervals, under Spec
\* and under SpecToken, and the longest prefix a failed write leaves behind.
MaxTicks == 10
TokenTicks == 1
FaultTicks == 10
MaxKept == 1

Min(a, b) == IF a <= b THEN a ELSE b
Max(a, b) == IF a >= b THEN a ELSE b

-----------------------------------------------------------------------------
(* update_env_file, lines 29-58 *)

\* lines 36-44: replace the first line that starts with "key=", else append.
\* A line is <<key, value>>, standing for the text "key=value\n".
RECURSIVE ReplaceFirst(_, _, _)
ReplaceFirst(lines, key, value) ==
    IF lines = <<>> THEN <<>>
    ELSE IF Head(lines)[1] = key
         THEN <<<<key, value>>>> \o Tail(lines)
         ELSE <<Head(lines)>> \o ReplaceFirst(Tail(lines), key, value)

HasKey(lines, key) == \E i \in 1..Len(lines) : lines[i][1] = key

PatchLines_Append(lines, key, value) == Append(lines, <<key, value>>)

PatchLines(lines, key, value) ==
    IF HasKey(lines, key) THEN ReplaceFirst(lines, key, value)
    ELSE Append(lines, <<key, value>>)

\* What the file system does with the write of lines 46-47.
\*   "ok"          the file is written and closed
\*   "open_error"  open() raises before anything is written
\*   "write_error" open(..., 'w') has truncated the file and the write raises
\*                 after `kept` lines
IoOutcomes == {"ok", "open_error", "write_error"}

\* The result: the file afterwards, the environment variable, the return value.
update_env_file(file, environ, key, value, io, kept) ==
    IF ~file.exists
    THEN [file |-> file, environ |-> environ, ret |-> FALSE]
    ELSE LET patched == PatchLines(file.lines, key, value) IN
         CASE io = "ok" ->
                [file |-> [exists |-> TRUE, lines |-> patched],
                 environ |-> value, ret |-> TRUE]
           [] io = "open_error" ->
                [file |-> file, environ |-> environ, ret |-> FALSE]
           [] OTHER ->
                [file |-> [exists |-> TRUE,
                           lines |-> SubSeq(patched, 1, Min(kept, Len(patched) - 1))],
                 environ |-> environ, ret |-> FALSE]

-----------------------------------------------------------------------------
(* refresh_access_token, lines 61-106 *)

AccessTokens == {"at1", "at2"}
RefreshTokens == {"r0", "r1"}
Absent == -1
ExpiresInValues == {30, 60, 90}

\* Responses of the token endpoint.  status 0: requests.post raised.
\* A 200 body is {access_token, expires_in?, refresh_token?} as the endpoint
\* documents it; a 400 body carries "error", or is not JSON at all.
TokenErrorResponses ==
    { [status |-> 0,   error |-> "",  access_token |-> None, expires_in |-> Absent, refresh_token |-> None],
      [status |-> 500, error |-> "",  access_token |-> None, expires_in |-> Absent, refresh_token |-> None],
      [status |-> 400, error |-> "invalid_grant",   access_token |-> None, expires_in |-> Absent, refresh_token |-> None],
      [status |-> 400, error |-> "invalid_request", access_token |-> None, expires_in |-> Absent, refresh_token |-> None],
      [status |-> 400, error |-> "not_json",        access_token |-> None, expires_in |-> Absent, refresh_token |-> None] }

TokenOkResponses ==
    [status : {200}, error : {""}, access_token : AccessTokens,
     expires_in : ExpiresInValues \cup {Absent},
     refresh_token : RefreshTokens \cup {None, ""}]

TokenResponses == TokenErrorResponses \cup TokenOkResponses

\* The answers of an endpoint that does not rotate refresh tokens.
PlainTokenResponses == {r \in TokenResponses : r.refresh_token = None}

NoTokenData == [access_token |-> None, expires_at |-> 0]

\* line 91
Rotates_NonEmpty(r, current) == ~Falsy(r.refresh_token)

Rotates(r, current) ==
    ~Falsy(r.refresh_token) /\ r.refresh_token # current

\* The file system has a say only where update_env_file opens the file.
IoChoices(r, current, file) ==
    IF r.status = 200 /\ Rotates(r, current) /\ file.exists THEN IoOutcomes ELSE {"ok"}

\* The result of one call: token_data (ok = FALSE for None), the global, the
\* file and the environment afterwards, and whether update_env_file was called
\* and what it returned.
refresh_access_token_KeepsOnFailure(r, current, file, environ, t, io, kept) ==
    IF r.status # 200
    THEN [ok |-> FALSE, token_data |-> NoTokenData, refresh_token |-> current,
          file |-> file, environ |-> environ, called_update |-> FALSE, persisted |-> FALSE]
    ELSE LET expires_in == IF r.expires_in = Absent THEN DEFAULT_EXPIRES_IN ELSE r.expires_in
             td == [access_token |-> r.access_token, expires_at |-> t + expires_in]
         IN  IF Rotates(r, current)
             THEN LET u == update_env_file(file, environ, REFRESH_KEY, r.refresh_token, io, kept)
                  IN  [ok |-> TRUE, token_data |-> td,
                       refresh_token |-> IF u.ret THEN r.refresh_token ELSE current,
                       file |-> u.file, environ |-> u.environ,
                       called_update |-> TRUE, persisted |-> u.ret]
             ELSE [ok |-> TRUE, token_data |-> td, refresh_token |-> current,
                   file |-> file, environ |-> environ,
                   called_update |-> FALSE, persisted |-> FALSE]

refresh_access_token(r, current, file, environ, t, io, kept) ==
    IF r.status # 200
    THEN \* lines 75-84 and 104-106: every failure returns None
         [ok |-> FALSE, token_data |-> NoTokenData, refresh_token |-> current,
          file |-> file, environ |-> environ, called_update |-> FALSE, persisted |-> FALSE]
    ELSE LET expires_in == IF r.expires_in = Absent THEN DEFAULT_EXPIRES_IN ELSE r.expires_in
             td == [access_token |-> r.access_token, expires_at |-> t + expires_in]
         IN  IF Rotates(r, current)
             THEN LET u == update_env_file(file, environ, REFRESH_KEY, r.refresh_token, io, kept)
                  IN  \* lines 93-98: the global is set on both branches
                      [ok |-> TRUE, token_data |-> td, refresh_token |-> r.refresh_token,
                       file |-> u.file, environ |-> u.environ,
                       called_update |-> TRUE, persisted |-> u.ret]
             ELSE [ok |-> TRUE, token_data |-> td, refresh_token |-> current,
                   file |-> file, environ |-> environ,
                   called_update |-> FALSE, persisted |-> FALSE]

-----------------------------------------------------------------------------
(* get_current_playing, lines 109-142 *)

\* ", ".join(names)
RECURSIVE Join(_)
Join(names) ==
    IF names = <<>> THEN <<>>
    ELSE IF Len(names) = 1 THEN <<names[1]>>
    ELSE <<names[1], ", ">> \o Join(Tail(names))

\* line 131: the message, as the sequence of its pieces
Message(name, artists) == <<STATUS_PREFIX, name, " by ">> \o Join(artists)

NoItem == [name |-> "", artists |-> <<>>, duration_ms |-> 0]
Items ==
    { [name |-> "Song", artists |-> <<"A", "B">>, duration_ms |-> 40000],
      [name |-> "Tune", artists |-> <<"A">>,      duration_ms |-> 40000] }
ProgressValues == {10000, 50000}

\* Responses of the player endpoint.  status 0: requests.get raised.
PlayerOtherResponses ==
    { [status |-> s, has_item |-> FALSE, is_playing |-> FALSE, item |-> NoItem, progress_ms |-> 0]
        : s \in {0, 204, 401, 500} }
PlayerOkResponses ==
    { [status |-> 200, has_item |-> h, is_playing |-> p, item |-> IF h THEN i ELSE NoItem, progress_ms |-> g]
        : h \in BOOLEAN, p \in BOOLEAN, i \in Items, g \in ProgressValues }
PlayerResponses == PlayerOtherResponses \cup PlayerOkResponses

\* A listener who plays one track or nothing.
FewPlayerResponses ==
    {r \in PlayerResponses :
        \/ r.status \in {204, 401}
        \/ r.status = 200 /\ r.has_item /\ r.is_playing /\ r.item.name = "Tune"
                          /\ r.progress_ms = 10000}

NoTrack == [kind |-> "None", message |-> NoneMsg, expires_at |-> 0]
TokenExpired == [kind |-> "TOKEN_EXPIRED", message |-> NoneMsg, expires_at |-> 0]

\* t is the clock in seconds; expires_at is in milliseconds
get_current_playing_NoFloor(r, t) ==
    IF r.status = 0 THEN NoTrack
    ELSE IF r.status = 204 THEN NoTrack
    ELSE IF r.status = 401 THEN TokenExpired
    ELSE IF r.status # 200 THEN NoTrack
    ELSE IF ~r.has_item \/ ~r.is_playing THEN NoTrack
    ELSE [kind |-> "track",
          message |-> Message(r.item.name, r.item.artists),
          expires_at |-> t * 1000 + (r.item.duration_ms - r.progress_ms)]

get_current_playing(r, t) ==
    IF r.status = 0 THEN NoTrack                 \* lines 140-142
    ELSE IF r.status = 204 THEN NoTrack          \* lines 116-117
    ELSE IF r.status = 401 THEN TokenExpired     \* lines 118-120
    ELSE IF r.status # 200 THEN NoTrack          \* lines 121-123
    ELSE IF ~r.has_item \/ ~r.is_playing THEN NoTrack   \* lines 126-127
    ELSE LET remaining_ms == Max(r.item.duration_ms - r.progress_ms, 0)
         IN  [kind |-> "track",
              message |-> Message(r.item.name, r.item.artists),
              expires_at |-> t * 1000 + remaining_ms]

-----------------------------------------------------------------------------
(* set_github_status, lines 145-187 *)

\* Responses of the GraphQL endpoint.  status 0: requests.post raised.
GithubResponses ==
    { [status |-> 0,   errors |-> FALSE],
      [status |-> 500, errors |-> FALSE],
      [status |-> 200, errors |-> TRUE],
      [status |-> 200, errors |-> FALSE] }

set_github_status(r) ==
    IF r.status = 0 THEN FALSE               \* lines 185-187
    ELSE IF r.status # 200 THEN FALSE        \* lines 173-175
    ELSE IF r.errors THEN FALSE              \* lines 178-180
    ELSE TRUE

-----------------------------------------------------------------------------
(* main, lines 190-255, and the __main__ block, lines 258-279 *)

Positions == {"top", "refresh", "backoff", "poll", "publish", "sleep",
              "handler_sleep", "shutdown", "done", "exited", "aborted"}
Running == {"top", "refresh", "backoff", "poll", "publish", "sleep"}

\* The except clauses of lines 247-255, by exception class: where control goes.
\* SystemExit and KeyboardInterrupt are no subclasses of Exception, and the
\* except clause of lines 276-279 lets SystemExit through as well.
IsException(exc) == exc \notin {"SystemExit", "KeyboardInterrupt"}

ExceptClause_NoHandler(exc) ==
    IF exc = "KeyboardInterrupt" THEN "shutdown" ELSE "exited"

ExceptClause(exc) ==
    IF exc = "KeyboardInterrupt" THEN "shutdown"
    ELSE IF IsException(exc) THEN "handler_sleep"
    ELSE "exited"

\* lines 274-279: where an exception that leaves main() ends.  The except clause
\* takes an Exception and exits with code 1; SystemExit ends the process with
\* its own code; a KeyboardInterrupt is taken by nothing and the interpreter
\* aborts with a traceback.
MainEscape(exc) ==
    IF exc = "KeyboardInterrupt" THEN "aborted" ELSE "exited"

\* line 203
NeedsRefresh_NoMargin(token, t, expires_at) ==
    Falsy(token) \/ t >= expires_at

NeedsRefresh(token, t, expires_at) ==
    Falsy(token) \/ t >= expires_at - SAFETY_MARGIN

\* line 214, for a POLL_INTERVAL of `interval` seconds
BackoffWait_NoCap(interval, failures) == interval * failures

BackoffWait(interval, failures) == Min(interval * failures, BACKOFF_CAP)

wait_time(failures) == BackoffWait(POLL_INTERVAL, failures)

\* lines 238-241: whether the tick calls set_github_status
ShouldPublish_NoDebounce(message, last, clear) ==
    ~(message = NoneMsg /\ ~clear)

ShouldPublish_IgnoresFlag(message, last, clear) ==
    message # last

ShouldPublish_NeverClears(message, last, clear) ==
    message # last /\ message # NoneMsg

ShouldPublish(message, last, clear) ==
    message # last /\ ~(message = NoneMsg /\ ~clear)

\* lines 242-243: last_status after set_github_status returned `ok`
NextLastStatus_Speculative(message, last, ok) == message

NextLastStatus_OnFailure(message, last, ok) == IF ok THEN last ELSE message

NextLastStatus_Forgets(message, last, ok) == IF ok THEN NoneMsg ELSE last

NextLastStatus(message, last, ok) == IF ok THEN message ELSE last

\* line 222
FailuresAfterSuccess_NoReset(failures) == failures

FailuresAfterSuccess(failures) == 0

\* lines 220-221: what main keeps of token_data
TokenAfterRefresh(token_data, token, expires_at) == token_data

\* lines 226-229: the token and the next position after TOKEN_EXPIRED
AfterTokenExpired_Sleeps(token) == [access_token |-> None, pc |-> "sleep"]

AfterTokenExpired_Publishes(token) == [access_token |-> None, pc |-> "publish"]

AfterTokenExpired_Backoff(token) == [access_token |-> None, pc |-> "backoff"]

AfterTokenExpired(token) == [access_token |-> None, pc |-> "top"]

\* The record of a call or a sleep.  token: the access token a poll was made
\* with, or the one a refresh returned; message: the candidate of a poll or the
\* argument of a publish; secs: the length of a sleep.  For a refresh, status
\* and error are those of the answer, refresh_token the one in the answer, sent
\* the one the request carried, rotated whether update_env_file was called and
\* persisted what it returned.
Event(kind, token, message, secs) ==
    [kind |-> kind, token |-> token, message |-> message, secs |-> secs,
     status |-> 0, error |-> "", refresh_token |-> None, sent |-> None,
     rotated |-> FALSE, persisted |-> FALSE]

RefreshEvent(r, res, sent) ==
    [kind |-> IF res.ok THEN "refresh_ok" ELSE "refresh_fail",
     token |-> res.token_data.access_token, message |-> NoneMsg, secs |-> 0,
     status |-> r.status, error |-> IF r.status = 400 THEN r.error ELSE "",
     refresh_token |-> r.refresh_token, sent |-> sent,
     rotated |-> res.called_update, persisted |-> res.persisted]

NoTick == [message |-> NoneMsg, failed |-> FALSE]
NoBasis == [kind |-> "none", at |-> 0]

\* The value the .env file holds for the refresh token: that of the first line
\* starting with "SPOTIFY_REFRESH_TOKEN=", None without such a line or file.
StoredToken(file) ==
    IF file.exists /\ HasKey(file.lines, REFRESH_KEY)
    THEN LET i == CHOOSE i \in 1..Len(file.lines) :
                     /\ file.lines[i][1] = REFRESH_KEY
                     /\ \A j \in 1..(i - 1) : file.lines[j][1] # REFRESH_KEY
         IN  file.lines[i][2]
    ELSE None

\* The .env file at start: none (the settings come from the environment), one
\* without the refresh token, one with it.
NoFile == [exists |-> FALSE, lines |-> <<>>]
FileWithToken ==
    [exists |-> TRUE, lines |-> << <<"SPOTIFY_CLIENT_ID", "id">>,
                                   <<REFRESH_KEY, "r0">>,
                                   <<"GITHUB_TOKEN", "gh">> >>]
InitialFiles ==
    { NoFile,
      [exists |-> TRUE, lines |-> << <<"SPOTIFY_CLIENT_ID", "id">> >>],
      FileWithToken }

\* lines 10-21 and 192-195
InitWith(files) ==
    /\ pc = "top"
    /\ now = 0
    /\ exit_code = -1
    /\ CLEAR_STATUS_WHEN_IDLE \in BOOLEAN
    /\ SPOTIFY_REFRESH_TOKEN = "r0"
    /\ env_file \in files
    /\ os_environ = "r0"
    /\ access_token = None
    /\ expires_at_token = now
    /\ last_status = NoneMsg
    /\ consecutive_failures = 0
    /\ status_message = NoneMsg
    /\ status_expires = 0
    /\ last_event = Event("start", None, NoneMsg, 0)
    /\ acked = NoneMsg
    /\ prev = NoTick
    /\ fails_in_row = 0
    /\ storage = [issued |-> SPOTIFY_REFRESH_TOKEN,
                  agreed |-> StoredToken(env_file) = SPOTIFY_REFRESH_TOKEN,
                  failed |-> FALSE]
    /\ basis = NoBasis

\* line 203: the expiry check at the top of an iteration
CheckToken ==
    /\ pc = "top"
    /\ pc' = IF NeedsRefresh(access_token, now, expires_at_token) THEN "refresh" ELSE "poll"
    /\ basis' = [kind |-> "checked", at |-> now]
    /\ UNCHANGED <<now, exit_code, CLEAR_STATUS_WHEN_IDLE, SPOTIFY_REFRESH_TOKEN,
                   env_file, os_environ, access_token, expires_at_token, last_status,
                   consecutive_failures, status_message, status_expires,
                   last_event, acked, prev, fails_in_row, storage>>

\* lines 205-222: the call of refresh_access_token and what main does with it
Refresh(responses) ==
    /\ pc = "refresh"
    /\ \E r \in responses :
       \E io \in IoChoices(r, SPOTIFY_REFRESH_TOKEN, env_file) :
       \E kept \in IF io = "write_error" THEN 0..MaxKept ELSE {0} :
         LET res == refresh_access_token(r, SPOTIFY_REFRESH_TOKEN, env_file, os_environ,
                                         now, io, kept)
             td == TokenAfterRefresh(res.token_data, access_token, expires_at_token)
         IN
         /\ SPOTIFY_REFRESH_TOKEN' = res.refresh_token
         /\ env_file' = res.file
         /\ os_environ' = res.environ
         /\ last_event' = RefreshEvent(r, res, SPOTIFY_REFRESH_TOKEN)
         /\ storage' = [storage EXCEPT
                !.issued = IF r.status = 200 /\ ~Falsy(r.refresh_token)
                           THEN r.refresh_token ELSE @,
                !.failed = @ \/ (res.called_update /\ ~res.persisted)]
         /\ IF ~res.ok
            THEN \* lines 207-218
                 /\ consecutive_failures' = consecutive_failures + 1
                 /\ fails_in_row' = fails_in_row + 1
                 /\ IF consecutive_failures' >= max_failures
                    THEN \* line 212: sys.exit(1) raises SystemExit
                         /\ pc' = ExceptClause("SystemExit")
                         /\ exit_code' = IF pc' = "exited" THEN 1 ELSE exit_code
                    ELSE /\ pc' = "backoff"
                         /\ exit_code' = exit_code
                 /\ basis' = NoBasis
                 /\ UNCHANGED <<access_token, expires_at_token>>
            ELSE \* lines 220-222
                 /\ access_token' = td.access_token
                 /\ expires_at_token' = td.expires_at
                 /\ consecutive_failures' = FailuresAfterSuccess(consecutive_failures)
                 /\ fails_in_row' = 0
                 /\ basis' = [kind |-> "refreshed", at |-> now]
                 /\ pc' = "poll"
                 /\ exit_code' = exit_code
    /\ UNCHANGED <<now, CLEAR_STATUS_WHEN_IDLE, last_status, status_message,
                   status_expires, acked, prev>>

\* lines 214-218: time.sleep(wait_time); continue
Backoff(ticks) ==
    /\ pc = "backoff"
    /\ now + wait_time(consecutive_failures) <= ticks * POLL_INTERVAL
    /\ now' = now + wait_time(consecutive_failures)
    /\ pc' = "top"
    /\ last_event' = Event("backoff", None, NoneMsg, wait_time(consecutive_failures))
    /\ UNCHANGED <<exit_code, CLEAR_STATUS_WHEN_IDLE, SPOTIFY_REFRESH_TOKEN,
                   env_file, os_environ, access_token, expires_at_token, last_status,
                   consecutive_failures, status_message, status_expires,
                   acked, prev, fails_in_row, storage, basis>>

\* lines 224-241: the poll, the TOKEN_EXPIRED branch, the candidate message and
\* the decision to publish
Poll(responses) ==
    /\ pc = "poll"
    /\ \E r \in responses :
         LET track_info == get_current_playing(r, now) IN
         IF track_info.kind = "TOKEN_EXPIRED"
         THEN \* lines 226-229
              /\ access_token' = AfterTokenExpired(access_token).access_token
              /\ pc' = AfterTokenExpired(access_token).pc
              /\ last_event' = Event("poll_expired", access_token, NoneMsg, 0)
              /\ UNCHANGED <<status_message, status_expires, prev>>
         ELSE \* lines 231-241
              /\ status_message' = track_info.message
              /\ status_expires' = track_info.expires_at
              /\ pc' = IF ShouldPublish(status_message', last_status, CLEAR_STATUS_WHEN_IDLE)
                       THEN "publish" ELSE "sleep"
              /\ last_event' = [Event("poll", access_token, status_message', 0)
                                   EXCEPT !.status = r.status]
              /\ UNCHANGED <<access_token, prev>>
    /\ basis' = NoBasis
    /\ UNCHANGED <<now, exit_code, CLEAR_STATUS_WHEN_IDLE, SPOTIFY_REFRESH_TOKEN,
                   env_file, os_environ, expires_at_token, last_status,
                   consecutive_failures, acked, fails_in_row, storage>>

\* lines 242-243: set_github_status(status_message, status_expires)
Publish ==
    /\ pc = "publish"
    /\ \E r \in GithubResponses :
         LET ok == set_github_status(r) IN
         /\ last_status' = NextLastStatus(status_message, last_status, ok)
         /\ acked' = IF ok THEN status_message ELSE acked
         /\ last_event' = Event(IF ok THEN "publish_ok" ELSE "publish_fail",
                                None, status_message, 0)
    /\ pc' = "sleep"
    /\ UNCHANGED <<now, exit_code, CLEAR_STATUS_WHEN_IDLE, SPOTIFY_REFRESH_TOKEN,
                   env_file, os_environ, access_token, expires_at_token,
                   consecutive_failures, status_message, status_expires,
                   prev, fails_in_row, storage, basis>>

\* line 245: time.sleep(POLL_INTERVAL), the end of the iteration.  status_message
\* and status_expires are assigned again by lines 231-236 before they are read
\* again; the model forgets them here.
Sleep(ticks) ==
    /\ pc = "sleep"
    /\ now + POLL_INTERVAL <= ticks * POLL_INTERVAL
    /\ now' = now + POLL_INTERVAL
    /\ pc' = "top"
    /\ status_message' = NoneMsg
    /\ status_expires' = 0
    /\ last_event' = Event("sleep", None, NoneMsg, POLL_INTERVAL)
    /\ prev' = [message |-> status_message, failed |-> last_event.kind = "publish_fail"]
    /\ UNCHANGED <<exit_code, CLEAR_STATUS_WHEN_IDLE, SPOTIFY_REFRESH_TOKEN,
                   env_file, os_environ, access_token, expires_at_token, last_status,
                   consecutive_failures, acked, fails_in_row, storage, basis>>

\* Ctrl-C while the try block of lines 202-245 runs: KeyboardInterrupt
Interrupt ==
    /\ pc \in Running
    /\ pc' = ExceptClause("KeyboardInterrupt")
    /\ UNCHANGED <<now, exit_code, CLEAR_STATUS_WHEN_IDLE, SPOTIFY_REFRESH_TOKEN,
                   env_file, os_environ, access_token, expires_at_token, last_status,
                   consecutive_failures, status_message, status_expires,
                   last_event, acked, prev, fails_in_row, storage, basis>>

\* lines 247-252: the except clause for KeyboardInterrupt; after the break main
\* returns and the process ends with exit code 0.  The memory of the process
\* ends with it: the variables of main and the module globals go back to their
\* values at start, and what remains is the file, the clock and the history.
Shutdown ==
    /\ pc = "shutdown"
    /\ \E r \in GithubResponses :
         last_event' = IF CLEAR_STATUS_WHEN_IDLE
                       THEN Event(IF set_github_status(r) THEN "shutdown_clear_ok"
                                  ELSE "shutdown_clear_fail", None, NoneMsg, 0)
                       ELSE Event("shutdown", None, NoneMsg, 0)
    /\ pc' = "done"
    /\ exit_code' = 0
    /\ SPOTIFY_REFRESH_TOKEN' = None
    /\ os_environ' = None
    /\ access_token' = None
    /\ expires_at_token' = 0
    /\ last_status' = NoneMsg
    /\ consecutive_failures' = 0
    /\ status_message' = NoneMsg
    /\ status_expires' = 0
    /\ prev' = NoTick
    /\ basis' = NoBasis
    /\ UNCHANGED <<now, CLEAR_STATUS_WHEN_IDLE, env_file, acked, fails_in_row, storage>>

\* The clock moves while a call is in progress or the process is preempted.
Elapse(ticks) ==
    /\ pc \in Running
    /\ now + POLL_INTERVAL <= ticks * POLL_INTERVAL
    /\ now' = now + POLL_INTERVAL
    /\ UNCHANGED <<pc, exit_code, CLEAR_STATUS_WHEN_IDLE, SPOTIFY_REFRESH_TOKEN,
                   env_file, os_environ, access_token, expires_at_token, last_status,
                   consecutive_failures, status_message, status_expires,
                   last_event, acked, prev, fails_in_row, storage, basis>>

\* An exception that is neither SystemExit nor KeyboardInterrupt raised in the
\* try block of lines 202-245, outside the try blocks of the four functions
\* (in a logging call of one of their except clauses, or a MemoryError): the
\* except clause of line 253 takes it.  The iteration is over: the candidate
\* of lines 231-236 is assigned again before it is read again.
RaiseUnexpected ==
    /\ pc \in Running
    /\ pc' = ExceptClause("Exception")
    /\ last_event' = Event("unexpected", None, NoneMsg, 0)
    /\ status_message' = NoneMsg
    /\ status_expires' = 0
    /\ prev' = NoTick
    /\ basis' = NoBasis
    /\ UNCHANGED <<now, exit_code, CLEAR_STATUS_WHEN_IDLE, SPOTIFY_REFRESH_TOKEN,
                   env_file, os_environ, access_token, expires_at_token, last_status,
                   consecutive_failures, acked, fails_in_row, storage>>

\* lines 253-255: time.sleep(POLL_INTERVAL) in the except clause, then the next
\* iteration
HandlerSleep(ticks) ==
    /\ pc = "handler_sleep"
    /\ now + POLL_INTERVAL <= ticks * POLL_INTERVAL
    /\ now' = now + POLL_INTERVAL
    /\ pc' = "top"
    /\ last_event' = Event("handler_sleep", None, NoneMsg, POLL_INTERVAL)
    /\ UNCHANGED <<exit_code, CLEAR_STATUS_WHEN_IDLE, SPOTIFY_REFRESH_TOKEN,
                   env_file, os_environ, access_token, expires_at_token, last_status,
                   consecutive_failures, status_message, status_expires,
                   acked, prev, fails_in_row, storage, basis>>

\* Ctrl-C during the sleep of line 255.  The sleep is in an except clause, not
\* in the try block, so the clause of line 247 does not take the
\* KeyboardInterrupt: it leaves main(), lines 276-279 do not take it either,
\* and the interpreter aborts (status 130) with line 251 never run.
InterruptHandler ==
    /\ pc = "handler_sleep"
    /\ pc' = MainEscape("KeyboardInterrupt")
    /\ exit_code' = 130
    /\ last_event' = Event("uncaught_interrupt", None, NoneMsg, 0)
    /\ SPOTIFY_REFRESH_TOKEN' = None
    /\ os_environ' = None
    /\ access_token' = None
    /\ expires_at_token' = 0
    /\ last_status' = NoneMsg
    /\ consecutive_failures' = 0
    /\ UNCHANGED <<now, CLEAR_STATUS_WHEN_IDLE, env_file, status_message,
                   status_expires, acked, prev, fails_in_row, storage, basis>>

\* The loop with every answer of the player and of GitHub, against a token
\* endpoint that does not rotate the refresh token (the .env file is then
\* never written).
Init == InitWith({FileWithToken})

Next ==
    \/ CheckToken
    \/ Refresh(PlainTokenResponses)
    \/ Backoff(MaxTicks)
    \/ Poll(PlayerResponses)
    \/ Publish
    \/ Sleep(MaxTicks)
    \/ Interrupt
    \/ Shutdown
    \/ Elapse(MaxTicks)

Spec == Init /\ [][Next]_vars

\* The same loop with every answer of the token endpoint, every .env file and
\* every outcome of the write, over a shorter horizon and with a listener who
\* plays one track or nothing.
InitToken == InitWith(InitialFiles)

NextToken ==
    \/ CheckToken
    \/ Refresh(TokenResponses)
    \/ Backoff(TokenTicks)
    \/ Poll(FewPlayerResponses)
    \/ Publish
    \/ Sleep(TokenTicks)
    \/ Interrupt
    \/ Shutdown
    \/ Elapse(TokenTicks)

SpecToken == InitToken /\ [][NextToken]_vars

\* The loop of Spec with the unexpected exceptions of the try block and the
\* except clause of lines 253-255, with a listener who plays one track or
\* nothing.
NextFault ==
    \/ CheckToken
    \/ Refresh(PlainTokenResponses)
    \/ Backoff(FaultTicks)
    \/ Poll(FewPlayerResponses)
    \/ Publish
    \/ Sleep(FaultTicks)
    \/ Interrupt
    \/ Shutdown
    \/ Elapse(FaultTicks)
    \/ RaiseUnexpected
    \/ HandlerSleep(FaultTicks)
    \/ InterruptHandler

SpecFault == Init /\ [][NextFault]_vars

-----------------------------------------------------------------------------
(* Properties *)

PollStep == pc = "poll" /\ last_event'.kind = "poll"
RefreshStep == pc = "refresh" /\ last_event'.kind \in {"refresh_ok", "refresh_fail"}

\* C1: while the process lives, last_status is the message of the most recent
\* set_github_status call of a tick that returned True, and None before the
\* first such call: it is never set ahead of, or without, a True result.  (The
\* clear of line 251 is made after the last tick and its result is ignored.)
C1_LastStatusIsLastAcked ==
    pc # "done" => last_status = acked

\* C1 witness: a status was published, and a later publish of another message
\* failed and left last_status alone.
C1_Witness ==
    /\ last_event.kind = "publish_fail"
    /\ last_status # NoneMsg
    /\ last_event.message # last_status

\* C2: a publish that returns False leaves last_status as it was, and when the
\* next tick's poll yields the same candidate the loop calls
\* set_github_status with that message again.
C2_FailedPublishIsRetried ==
    [][ /\ (pc = "publish" /\ last_event'.kind = "publish_fail")
            => last_status' = last_status
        /\ (PollStep /\ prev.failed /\ last_event'.message = prev.message)
            => (pc' = "publish" /\ status_message' = prev.message) ]_vars

\* C2 witness: the tick before failed to publish the message the loop is now
\* about to publish again.
C2_Witness ==
    /\ pc = "publish"
    /\ prev.failed
    /\ status_message = prev.message
    /\ last_status # status_message

\* C3: a tick whose candidate equals last_status, or the message last
\* published with success, calls set_github_status not at all; and last_status
\* changes only in a successful publish of a candidate that differs from it.
C3_NoDuplicatePublish ==
    [][ /\ (PollStep /\ last_event'.message \in {last_status, acked})
            => (pc' = "sleep" /\ last_status' = last_status)
        /\ (last_status' # last_status /\ pc' # "done")
            => /\ pc = "publish"
               /\ last_event'.kind = "publish_ok"
               /\ last_status' = status_message
               /\ status_message # last_status ]_vars

\* C3 witness: the second tick of a run of equal candidates, after the message
\* was published: the loop goes to sleep without a call.
C3_Witness ==
    /\ pc = "sleep"
    /\ last_event.kind = "poll"
    /\ status_message = last_status
    /\ last_status # NoneMsg
    /\ prev.message = status_message

\* C4: after the token endpoint answered a refresh with 400 invalid_grant the
\* loop has ended with exit code 1, with no further call.
C4_InvalidGrantEndsTheLoop ==
    (last_event.kind = "refresh_fail" /\ last_event.status = 400
        /\ last_event.error = "invalid_grant")
    => (pc = "exited" /\ exit_code = 1)

\* C5: the process has exited with code 1 exactly when refresh_access_token
\* failed max_failures times in a row; consecutive_failures counts the
\* failures since the last success, which sets it to 0; and the exit of line
\* 212 ends the process (no except clause takes it).
C5_ExitOnFiveFailuresInARow ==
    /\ pc # "done" => consecutive_failures = fails_in_row
    /\ fails_in_row <= max_failures
    /\ (pc = "exited") <=> (fails_in_row = max_failures)
    /\ (pc = "exited") <=> (exit_code = 1)
    /\ last_event.kind = "refresh_ok" => consecutive_failures = 0

\* C5 witness: the process exited after five failures that followed a
\* successful refresh.
C5_Witness ==
    /\ pc = "exited"
    /\ exit_code = 1
    /\ expires_at_token > 0

C8_PollOnlyBeforeMargin ==
    pc = "poll" => now < expires_at_token - SAFETY_MARGIN

\* C8 as amended: a poll rests either on the expiry check of the same
\* iteration, which found a token and the clock strictly before
\* expires_at_token minus the margin, or on a refresh of the same iteration,
\* whose token is used as returned, with an expiry later than the time of the
\* refresh.  Time that passes after the check or the refresh is not looked at.
C8_PollRestsOnCheckOrRefresh ==
    pc = "poll" =>
        \/ /\ basis.kind = "checked"
           /\ ~Falsy(access_token)
           /\ basis.at < expires_at_token - SAFETY_MARGIN
           /\ basis.at <= now
        \/ /\ basis.kind = "refreshed"
           /\ last_event.kind = "refresh_ok"
           /\ access_token = last_event.token
           /\ basis.at < expires_at_token
           /\ basis.at <= now

\* C8 witness: the check passed, time went by, and the loop is about to poll
\* inside the margin.
C8_Witness ==
    /\ pc = "poll"
    /\ basis.kind = "checked"
    /\ now >= expires_at_token - SAFETY_MARGIN

\* C9: a poll that returns TOKEN_EXPIRED takes the loop straight back to the
\* top with no token, no sleep, no publish and last_status as it was; from
\* there the loop goes to a refresh (or to the interrupt handler); a refresh
\* that succeeds is followed by a poll, made with the token just returned.
C9_ExpiredTokenForcesRefresh ==
    [][ /\ (pc = "poll" /\ last_event'.kind = "poll_expired")
            => /\ pc' = "top"
               /\ Falsy(access_token')
               /\ last_status' = last_status
               /\ now' = now
        /\ (last_event.kind = "poll_expired" /\ pc = "top" /\ pc' # pc)
            => pc' \in {"refresh", "shutdown"}
        /\ (last_event.kind = "poll_expired" /\ pc \in Running)
            => pc \in {"top", "refresh"}
        /\ (pc = "refresh" /\ last_event'.kind = "refresh_ok")
            => (pc' = "poll" /\ access_token' = last_event'.token)
        /\ (last_event.kind = "refresh_ok" /\ last_event' # last_event /\ pc \in Running)
            => /\ last_event'.kind \in {"poll", "poll_expired"}
               /\ last_event'.token = last_event.token ]_vars

\* C9 witness: after TOKEN_EXPIRED, with a status published, the loop is about
\* to refresh.
C9_Witness ==
    /\ pc = "refresh"
    /\ last_event.kind = "poll_expired"
    /\ last_status # NoneMsg

\* C10 as stated: with CLEAR_STATUS_WHEN_IDLE false, an idle tick while a
\* status is recorded makes no call and leaves last_status; and a tick that
\* finds a track after an idle tick calls set_github_status for that track.
C10_EveryResumeIsPublished ==
    [][ (~CLEAR_STATUS_WHEN_IDLE /\ PollStep /\ last_status # NoneMsg) =>
          /\ status_message' = NoneMsg
                => (pc' = "sleep" /\ last_status' = last_status)
          /\ (status_message' # NoneMsg /\ prev.message = NoneMsg)
                => (pc' = "publish") ]_vars

\* C10 as amended: with CLEAR_STATUS_WHEN_IDLE false, an idle tick while a
\* status is recorded makes no call and leaves last_status; a tick that finds
\* a track after an idle tick calls set_github_status for that track if its
\* message differs from last_status, and makes no call if it is the message
\* last published.
C10_ResumeIsPublishedIfChanged ==
    [][ (~CLEAR_STATUS_WHEN_IDLE /\ PollStep /\ last_status # NoneMsg) =>
          /\ status_message' = NoneMsg
                => (pc' = "sleep" /\ last_status' = last_status)
          /\ (status_message' # NoneMsg /\ prev.message = NoneMsg
                /\ status_message' # last_status)
                => (pc' = "publish")
          /\ (status_message' # NoneMsg /\ prev.message = NoneMsg
                /\ status_message' = last_status)
                => (pc' = "sleep" /\ last_status' = last_status) ]_vars

\* C10 witness: after an idle tick that was skipped, another track than the
\* one recorded is about to be published.
C10_Witness ==
    /\ ~CLEAR_STATUS_WHEN_IDLE
    /\ pc = "publish"
    /\ prev.message = NoneMsg
    /\ last_status # NoneMsg
    /\ status_message # NoneMsg

\* The positions of the while loop of lines 201-255: the try block and the
\* sleep of the except clause for Exception.
LoopPositions == Running \cup {"handler_sleep"}

\* The events that end an iteration: the next call belongs to the next one.
IterationEnds == {"start", "sleep", "backoff", "poll_expired", "handler_sleep"}

PublishStep == pc = "publish" /\ last_event'.kind \in {"publish_ok", "publish_fail"}

\* C11 as stated: an interrupt at any position of the loop, the sleep of the
\* except clause included, takes the loop to the shutdown path; the shutdown
\* path makes one set_github_status(None) call if CLEAR_STATUS_WHEN_IDLE is set
\* and none otherwise, whatever the call returns, and main() then returns
\* (exit code 0).
C11_InterruptAlwaysShutsDown ==
    [][ /\ (pc \in LoopPositions /\ pc' \notin LoopPositions /\ pc' # "exited")
            => pc' = "shutdown"
        /\ (pc = "shutdown" /\ pc' # pc)
            => /\ pc' = "done"
               /\ exit_code' = 0
               /\ last_event'.kind \in {"shutdown_clear_ok", "shutdown_clear_fail"}
                    <=> CLEAR_STATUS_WHEN_IDLE ]_vars

C13_StrictlySequential ==
    [][ /\ pc' \in Positions
        /\ RefreshStep => last_event.kind \in IterationEnds
        /\ (pc = "poll" /\ last_event'.kind \in {"poll", "poll_expired"})
            => last_event.kind \in IterationEnds \cup {"refresh_ok"}
        /\ PublishStep
            => (last_event.kind = "poll" /\ last_event'.message = last_event.message)
        /\ (pc \in Running /\ last_event.kind \in {"publish_ok", "publish_fail"}
                /\ last_event' # last_event)
            => (last_event'.kind = "sleep" /\ pc = "sleep" /\ pc' = "top") ]_vars

\* C13 witness: an iteration that refreshed the token (at this very time),
\* polled and published, and is about to sleep.
C13_Witness ==
    /\ pc = "sleep"
    /\ last_event.kind = "publish_ok"
    /\ expires_at_token = now + DEFAULT_EXPIRES_IN

\* Values of POLL_INTERVAL to compute the wait for: below and above the cap.
PollIntervals == {1, POLL_INTERVAL, 100, BACKOFF_CAP + 100}

\* C14: after the k-th refresh failure in a row, k below max_failures, the
\* loop sleeps POLL_INTERVAL * k seconds, or 300 if that is more, and the next
\* call is a refresh; the wait does not decrease with k and is at most 300;
\* the max_failures-th failure exits with no wait.
C14_BackoffSchedule ==
    [][ /\ (pc = "backoff" /\ last_event'.kind = "backoff")
            => /\ \A p \in PollIntervals : \A k \in 1..(max_failures - 1) :
                    /\ BackoffWait(p, k) = (IF p * k <= 300 THEN p * k ELSE 300)
                    /\ BackoffWait(p, k) <= 300
                    /\ k > 1 => BackoffWait(p, k - 1) <= BackoffWait(p, k)
               /\ fails_in_row \in 1..(max_failures - 1)
               /\ last_event.kind = "refresh_fail"
               /\ now' - now = (IF POLL_INTERVAL * fails_in_row <= 300
                                THEN POLL_INTERVAL * fails_in_row ELSE 300)
               /\ last_event'.secs = now' - now
               /\ pc' = "top"
        /\ (pc \in Running /\ last_event.kind = "backoff" /\ last_event' # last_event)
            => RefreshStep
        /\ (RefreshStep /\ last_event'.kind = "refresh_fail")
            => IF fails_in_row' = max_failures
               THEN pc' = "exited" /\ now' = now
               ELSE pc' = "backoff" /\ now' = now ]_vars

\* C14 witness: the wait after the fourth failure in a row.
C14_Witness ==
    /\ last_event.kind = "backoff"
    /\ last_event.secs = 4 * POLL_INTERVAL
    /\ fails_in_row = 4

\* The answers of the player that mean "nothing playing": no content, any
\* status other than 200 and 401, a failed request, a body without an item or
\* with is_playing false.
IsAbsent(r) ==
    \/ r.status \notin {200, 401}
    \/ r.status = 200 /\ (~r.has_item \/ ~r.is_playing)

\* C15: every absent answer of the player gives the candidate None (with no
\* expiry); with CLEAR_STATUS_WHEN_IDLE set and a status recorded, the tick
\* then calls set_github_status(None, None), once, and if that returns True
\* last_status becomes None.
C15_AbsentPollClears ==
    [][ /\ PollStep
            => /\ \A r \in PlayerResponses :
                    IsAbsent(r) => get_current_playing(r, now) = NoTrack
               /\ last_event'.status # 200
                    => (status_message' = NoneMsg /\ status_expires' = 0)
               /\ (status_message' = NoneMsg /\ CLEAR_STATUS_WHEN_IDLE
                        /\ last_status # NoneMsg)
                    => pc' = "publish"
        /\ (PublishStep /\ status_message = NoneMsg)
            => /\ last_event.kind = "poll"
               /\ status_expires = 0
               /\ last_event'.message = NoneMsg
               /\ pc' = "sleep"
               /\ last_event'.kind = "publish_ok" => last_status' = NoneMsg
               /\ last_event'.kind = "publish_fail" => last_status' = last_status ]_vars

\* C15 witness: the player answered with a server error while a status is
\* recorded, and the loop is about to clear the status.
C15_Witness ==
    /\ pc = "publish"
    /\ last_event.kind = "poll"
    /\ last_event.status = 500
    /\ CLEAR_STATUS_WHEN_IDLE
    /\ last_status # NoneMsg
    /\ status_message = NoneMsg

\* The artist names with ", " between them, written out by position.
JoinedNames(artists) ==
    [k \in 1..(2 * Len(artists) - 1) |->
        IF k % 2 = 1 THEN artists[(k + 1) \div 2] ELSE ", "]

\* The answers of the player with a track that is playing.
Playing == {r \in PlayerOkResponses : r.has_item /\ r.is_playing}

\* C16: for a playing item, get_current_playing returns as expiry the clock
\* plus duration_ms - progress_ms milliseconds, or the clock itself when
\* progress exceeds duration, and as message STATUS_PREFIX, the name, " by "
\* and the artist names in their order with ", " between them; these are the
\* candidate and the expiry of the tick.
C16_ExpiryAndMessage ==
    [][ PollStep =>
          /\ \A r \in Playing :
                LET t == get_current_playing(r, now)
                    left == r.item.duration_ms - r.progress_ms
                IN  /\ t.expires_at = now * 1000 + (IF left > 0 THEN left ELSE 0)
                    /\ t.expires_at >= now * 1000
                    /\ t.message = <<STATUS_PREFIX, r.item.name, " by ">>
                                        \o JoinedNames(r.item.artists)
          /\ status_message' # NoneMsg
                => /\ last_event'.status = 200
                   /\ status_expires' >= now * 1000
                   /\ \E r \in Playing :
                        /\ status_message' = <<STATUS_PREFIX, r.item.name, " by ">>
                                                \o JoinedNames(r.item.artists)
                        /\ status_expires' = now * 1000
                                + (IF r.item.duration_ms > r.progress_ms
                                   THEN r.item.duration_ms - r.progress_ms ELSE 0) ]_vars

\* C16 witness: a track with two artists whose progress is past its duration
\* was polled at a time after the start: the expiry is the time of the poll.
C16_Witness ==
    /\ last_event.kind = "poll"
    /\ status_message = <<STATUS_PREFIX, "Song", " by ", "A", ", ", "B">>
    /\ now > 0
    /\ status_expires = now * 1000

\* C17 as stated: whenever the .env file changes, it changes in one step from
\* its complete old content to its complete new content: the old lines with
\* the first SPOTIFY_REFRESH_TOKEN line replaced, or with the line appended
\* when there was none; it is never left empty or cut short.
C17_EnvFileUpdateIsAtomic ==
    [][ env_file' # env_file
          => /\ RefreshStep
             /\ env_file'.exists
             /\ env_file'.lines = PatchLines(env_file.lines, REFRESH_KEY,
                                             last_event'.refresh_token) ]_vars

\* C18: the loop decides on the message alone.  A tick whose candidate is the
\* message last published with success goes to sleep without a call, whatever
\* expiry the poll computed and whatever the ticks before were; and no
\* publish carries the message last published with success, so its expiry is
\* not sent a second time while it is the last one published.
C18_DebounceIgnoresExpiry ==
    [][ /\ (PollStep /\ status_message' = acked)
            => /\ pc' = "sleep"
               /\ last_status' = last_status
               /\ acked' = acked
        /\ PublishStep
            => (status_message # acked /\ status_message # last_status) ]_vars

\* C18 witness: with CLEAR_STATUS_WHEN_IDLE false, after an idle tick, the
\* track last published is playing again and the tick goes to sleep without a
\* call.  Its expiry differs from the published one: it is later than the
\* clock, while the message was published at least two tick sleeps (30 s) ago
\* with at most 30 s of the track remaining.
C18_Witness ==
    /\ ~CLEAR_STATUS_WHEN_IDLE
    /\ pc = "sleep"
    /\ last_event.kind = "poll"
    /\ prev.message = NoneMsg
    /\ status_message # NoneMsg
    /\ status_message = last_status
    /\ status_expires > now * 1000

\* The events that are a sleep: lines 245, 217 and 255.
Sleeps == {"sleep", "backoff", "handler_sleep"}

\* C19: a poll answered with 401 counts as no refresh failure: it is reached
\* with consecutive_failures = 0 and leaves it so, takes no time, exits
\* nothing, and the next thing the loop does is a refresh, not a sleep and not
\* a publish, however often that repeats.  Every other iteration ends with
\* one sleep: an iteration is left for the next one either by the 401 or by a
\* sleep of positive length, and every sleep ends its iteration.
C19_ExpiredPollIsNoFailure ==
    [][ /\ pc \in {"poll", "publish", "sleep"}
            => (consecutive_failures = 0 /\ fails_in_row = 0)
        /\ (pc = "poll" /\ last_event'.kind = "poll_expired")
            => /\ consecutive_failures' = 0
               /\ fails_in_row' = 0
               /\ exit_code' = -1
               /\ now' = now
               /\ last_status' = last_status
               /\ pc' = "top"
        /\ (pc \in Running /\ last_event.kind = "poll_expired" /\ last_event' # last_event)
            => last_event'.kind \in {"refresh_ok", "refresh_fail", "unexpected"}
        /\ (pc \in LoopPositions /\ pc # "top" /\ pc' = "top")
            => \/ last_event'.kind = "poll_expired"
               \/ /\ last_event'.kind \in Sleeps
                  /\ last_event'.secs > 0
                  /\ now' = now + last_event'.secs
                  /\ last_event.kind \notin Sleeps
        /\ (last_event'.kind \in Sleeps /\ last_event' # last_event)
            => pc' = "top" ]_vars

\* C19 witness: the player answered 401 to a poll made with a token just
\* obtained, and the loop is at the top again with no sleep executed so far.
C19_Witness ==
    /\ pc = "top"
    /\ last_event.kind = "poll_expired"
    /\ last_event.token = "at2"
    /\ Falsy(access_token)
    /\ now = 0
    /\ consecutive_failures = 0

\* While the process lives.
Alive == pc \in LoopPositions \cup {"shutdown", "exited"}

\* What holds of the global after every successful refresh: it is the last
\* non-empty refresh token the endpoint issued, or the initial one; and a
\* refresh whose update_env_file failed still returned a credential, which
\* main took, and reset consecutive_failures.
GlobalIsLastIssued ==
    /\ Alive => SPOTIFY_REFRESH_TOKEN = storage.issued
    /\ (Alive /\ last_event.kind = "refresh_ok")
        => /\ consecutive_failures = 0
           /\ ~Falsy(last_event.token)
           /\ pc = "poll" => access_token = last_event.token
           /\ last_event.rotated => SPOTIFY_REFRESH_TOKEN = last_event.refresh_token

\* C20 as stated: the above, and the global and the stored copy differ only
\* after update_env_file has failed.
C20_CopiesDifferOnlyAfterFailedWrite ==
    /\ GlobalIsLastIssued
    /\ (Alive /\ last_event.kind = "refresh_ok"
            /\ StoredToken(env_file) # SPOTIFY_REFRESH_TOKEN)
        => storage.failed

\* C20 as amended: the above, and if the stored copy agreed with the global
\* when the process started, the two differ only after update_env_file has
\* failed (returned False: no file, or the write raised).  A store that had no
\* file, no SPOTIFY_REFRESH_TOKEN line or another value at start stays
\* different until a rotation is written.
C20_CopiesDifferOnlyIfAgreedAndFailed ==
    /\ GlobalIsLastIssued
    /\ (Alive /\ storage.agreed /\ StoredToken(env_file) # SPOTIFY_REFRESH_TOKEN)
        => storage.failed
    /\ (Alive /\ ~storage.failed /\ last_event.kind = "refresh_ok" /\ last_event.rotated)
        => StoredToken(env_file) = SPOTIFY_REFRESH_TOKEN

\* C20 witness: a refresh rotated the token, the write failed, and the loop
\* goes on to poll with the credential, the new token in memory only.
C20_Witness ==
    /\ pc = "poll"
    /\ last_event.kind = "refresh_ok"
    /\ last_event.rotated
    /\ ~last_event.persisted
    /\ storage.agreed
    /\ SPOTIFY_REFRESH_TOKEN = "r1"
    /\ StoredToken(env_file) # "r1"
    /\ consecutive_failures = 0

====
